---- MODULE Spec2Model ----
(***************************************************************************)
(* Two components of the repository are modelled here.                     *)
(*                                                                         *)
(* 1. fsTablePersister (package nbs): Persist / persistTable, ConjoinAll   *)
(*    and Open, run by concurrent callers against a directory, an index    *)
(*    cache and a file-handle cache.  Specification: Spec.                 *)
(*                                                                         *)
(* 2. AsyncDiffer and keylessDiffer (package diff): the producer task      *)
(*    started by Start and the GetDiffs consumers.  Specification:         *)
(*    SpecDiffer.                                                          *)
(***************************************************************************)
EXTENDS Integers, Sequences, FiniteSets, TLC

(***************************************************************************)
(* Bounds of the model.                                                    *)
(***************************************************************************)
\* total number of Persist / ConjoinAll / Open calls made by all callers
MaxCalls == 2
\* number of handles the file-handle cache keeps after ShrinkCache
FdBudget == 1
\* capacity of the difference channel (NewAsyncDiffer's bufferedDiffs)
BufferSize == 1
\* number of differences diff.Diff sends at most
MaxDiffs == 2
\* number of GetDiffs calls the consumer makes at most
MaxGets == 2
\* width in bits of the cardinalities (64 in the program)
CardBits == 3

\* concurrent callers of the persister
Procs == {"p1", "p2"}
\* chunk addresses
Chunks == {1, 2}
\* the two persisters: ftp 1 is built with an index cache, ftp 2 with
\* indexCache = nil; each has its own directory and file-handle cache
Ftps == {1, 2}

VARIABLES
    ftpOf,          \* the persister each caller uses
    dir,            \* dir[f][fileName]: the files of ftp f's directory
    indexCache,     \* indexCache[f][name]: the cached index, or NoIndex
    lockedEntries,  \* lockedEntries[f]: names locked by lockEntry
    fc,             \* fc[f]: names with an open handle in the fd cache
    pc,             \* pc[p]: position of caller p in its current call
    call,           \* call[p]: the locals of caller p's current call
    ncalls          \* calls started so far

ftpVars == <<ftpOf, dir, indexCache, lockedEntries, fc, pc, call, ncalls>>

VARIABLES
    keyless,        \* NewRowDiffer returned a keylessDiffer (else an AsyncDiffer)
    diffChan,       \* ad.diffChan: the buffered differences, and whether it is closed
    prod,           \* the producer task started by Start
    eg,             \* ad.eg and ad.egCtx: the errgroup and its context
    kd,             \* kd.df and kd.copiesLeft
    get,            \* the consumer's current GetDiffs or Close call
    ngets           \* GetDiffs calls started so far

dvars == <<keyless, diffChan, prod, eg, kd, get, ngets>>

vars == <<ftpVars, dvars>>

(***************************************************************************)
(* Values                                                                  *)
(***************************************************************************)
Nil == "nil"

tempTablePrefix == "nbs_table_"

HasIndexCache(f) == f = 1

RECURSIVE Pow2(_)
Pow2(n) == IF n = 0 THEN 1 ELSE 2 * Pow2(n - 1)

Min(S) == CHOOSE x \in S : \A y \in S : x <= y

RECURSIVE SortedSeq(_)
SortedSeq(S) == IF S = {} THEN <<>> ELSE <<Min(S)>> \o SortedSeq(S \ {Min(S)})

\* the content-derived address of a table: a hash of its chunk addresses that
\* does not depend on their order
RECURSIVE nameFromSuffixes(_)
nameFromSuffixes(as) ==
    IF as = <<>> THEN 0 ELSE Pow2(Head(as) - 1) + nameFromSuffixes(Tail(as))

MaxAddr == Pow2(Cardinality(Chunks)) - 1
TableNames == {<<"table", h>> : h \in 1..MaxAddr}
TempNames == {<<tempTablePrefix, i>> : i \in 1..MaxCalls}
FileNames == TableNames \cup TempNames

FileName(name) == <<"table", name>>

NoFile == [exists |-> FALSE, bytes |-> <<>>]
File(b) == [exists |-> TRUE, bytes |-> b]

\* the bytes of a table image: one data byte per chunk, then the index (one
\* entry per chunk giving its ordinal position) and the footer (chunk count)
DataBytes(as) == [i \in 1..Len(as) |-> <<"d", as[i], 0>>]
IndexBytes(as) == [i \in 1..Len(as) |-> <<"i", as[i], i>>] \o << <<"f", Len(as), 0>> >>
TableImage(as) == DataBytes(as) \o IndexBytes(as)

Prefix(s, n) == SubSeq(s, 1, n)

NoIndex == <<>>

\* parseTableIndex reads the footer at the end of the buffer and the index
\* entries before it; it fails when the buffer does not end with a footer or
\* is shorter than the footer declares
parseTableIndex(buff) ==
    LET n == Len(buff) IN
    IF n = 0 \/ buff[n][1] # "f" THEN [index |-> NoIndex, err |-> "ErrCorruptIndex"]
    ELSE LET cnt == buff[n][2] IN
         IF n < cnt + 1 \/ \E i \in (n - cnt)..(n - 1) : buff[i][1] # "i"
         THEN [index |-> NoIndex, err |-> "ErrCorruptIndex"]
         ELSE [index |-> SubSeq(buff, n - cnt, n - 1), err |-> Nil]

\* chunk sources
emptyChunkSource == [kind |-> "empty", name |-> 0, image |-> <<>>, index |-> NoIndex]
nilChunkSource == [kind |-> "nil", name |-> 0, image |-> <<>>, index |-> NoIndex]
tableReader(name, image, index) ==
    [kind |-> "table", name |-> name, image |-> image, index |-> index]

\* memTable.write: the chunks the haver does not already hold are serialized
mtWrite(written) ==
    LET as == SortedSeq(written) IN
    [name |-> nameFromSuffixes(as), data |-> TableImage(as), chunkCount |-> Len(as)]

RECURSIVE Concat(_)
Concat(ss) == IF ss = <<>> THEN <<>> ELSE Head(ss) \o Concat(Tail(ss))

\* planConjoin: the sources in plan order with the length of their chunk data,
\* the merged index and the total chunk count
planConjoin(sources) ==
    LET all == Concat(sources) IN
    [sws |-> [i \in 1..Len(sources) |->
                 [source |-> sources[i], dataLen |-> Len(DataBytes(sources[i]))]],
     mergedIndex |-> IndexBytes(all),
     suffixes |-> all,
     chunkCount |-> Len(all)]

\* the memTables callers persist (after the haver check) and the source lists
\* they conjoin; a source is the chunk list of an existing table
MemTableInputs == {{}, {1}}
ConjoinInputs == {<<>>, <<<<1>>, <<2>>>>}
\* the names callers open: those of the tables the inputs above produce
OpenInputs ==
    {nameFromSuffixes(SortedSeq(m)) : m \in MemTableInputs \ {{}}}
    \cup {nameFromSuffixes(Concat(ss)) : ss \in ConjoinInputs \ {<<>>}}
\* caller p1 uses ftp 1 or ftp 2, caller p2 the same persister or ftp 2
FtpConfigs == {g \in [Procs -> Ftps] : g["p1"] <= g["p2"]}

Ev(op, err, n) == [op |-> op, err |-> err, n |-> n]

NoCall ==
    [op |-> "none", name |-> 0, data |-> <<>>, chunkCount |-> 0,
     plan |-> planConjoin(<<>>), i |-> 0,
     tempName |-> <<tempTablePrefix, 0>>, tempOpen |-> FALSE,
     ferr |-> Nil, index |-> NoIndex,
     cs |-> nilChunkSource, err |-> Nil, trace |-> <<>>]

InitFtp ==
    /\ ftpOf \in FtpConfigs
    /\ dir = [f \in Ftps |-> [n \in FileNames |-> NoFile]]
    /\ indexCache = [f \in Ftps |-> [n \in 1..MaxAddr |-> NoIndex]]
    /\ lockedEntries = [f \in Ftps |-> {}]
    /\ fc = [f \in Ftps |-> {}]
    /\ pc = [p \in Procs |-> "idle"]
    /\ call = [p \in Procs |-> NoCall]
    /\ ncalls = 0

CanCall(p) == pc[p] \in {"idle", "done"} /\ ncalls < MaxCalls

\* the call of p returns (cs, err)
Return(p, c, cs, err) ==
    /\ call' = [call EXCEPT ![p] = [c EXCEPT !.cs = cs, !.err = err]]
    /\ pc' = [pc EXCEPT ![p] = "done"]

\* the call of p goes on at position l with locals c
Goto(p, c, l) ==
    /\ call' = [call EXCEPT ![p] = c]
    /\ pc' = [pc EXCEPT ![p] = l]

Log(c, op, err, n) == [c EXCEPT !.trace = Append(@, Ev(op, err, n))]

\* ioutil.TempFile: a name with the temp prefix that no file of the directory has
FreshTemp(f) ==
    <<tempTablePrefix, Min({i \in 1..MaxCalls : ~dir[f][<<tempTablePrefix, i>>].exists})>>

(***************************************************************************)
(* The caches the persister is built with                                  *)
(***************************************************************************)
\* indexCache.lockEntry(name) waits until no caller holds the entry
lockEntryEnabled(f, name) == name \notin lockedEntries[f]

\* indexCache.unlockEntry(name) fails when the entry is not locked
unlockEntryErr(f, name) == IF name \in lockedEntries[f] THEN Nil ELSE "ErrNotLocked"

\* fdCache.ShrinkCache closes handles until at most FdBudget stay open
ShrinkTargets(f) ==
    IF Cardinality(fc[f]) <= FdBudget THEN {fc[f]}
    ELSE {S \in SUBSET fc[f] : Cardinality(S) = FdBudget}

\* newMmapTableReader: the file must exist; the index comes from the index
\* cache or is parsed from the file
mmapTableReader(f, name, ioErr) ==
    LET file == dir[f][FileName(name)]
        cached == IF HasIndexCache(f) THEN indexCache[f][name] ELSE NoIndex
        parsed == parseTableIndex(file.bytes)
    IN IF ~file.exists THEN [cs |-> nilChunkSource, err |-> "ErrNotExist"]
       ELSE IF ioErr # Nil THEN [cs |-> nilChunkSource, err |-> ioErr]
       ELSE IF cached # NoIndex THEN [cs |-> tableReader(name, file.bytes, cached), err |-> Nil]
       ELSE IF parsed.err # Nil THEN [cs |-> nilChunkSource, err |-> parsed.err]
       ELSE [cs |-> tableReader(name, file.bytes, parsed.index), err |-> Nil]

(***************************************************************************)
(* fsTablePersister.Open                                                   *)
(***************************************************************************)
Open(p) ==
    /\ CanCall(p)
    /\ \E name \in OpenInputs, ioErr \in {Nil, "ErrOpen"} :
         LET f == ftpOf[p]
             r == mmapTableReader(f, name, ioErr)
             c == Log([NoCall EXCEPT !.op = "Open", !.name = name], "Open", r.err, 0)
         IN /\ Return(p, c, r.cs, r.err)
            /\ fc' = IF r.err = Nil THEN [fc EXCEPT ![f] = @ \cup {name}] ELSE fc
    /\ ncalls' = ncalls + 1
    /\ UNCHANGED <<ftpOf, dir, indexCache, lockedEntries, dvars>>

(***************************************************************************)
(* fsTablePersister.Persist and persistTable                               *)
(***************************************************************************)
\* faulty variant: the check for an empty table is missing
persistTableIsEmptyNever(chunkCount) == FALSE

\* persistTable returns the empty source when there is nothing to write
persistTableIsEmpty(chunkCount) == chunkCount = 0

Persist(p) ==
    /\ CanCall(p)
    /\ \E written \in MemTableInputs, werr \in {Nil, "ErrWrite"} :
         LET w == mtWrite(written)
             c == [NoCall EXCEPT !.op = "Persist", !.name = w.name, !.data = w.data,
                                 !.chunkCount = w.chunkCount]
         IN IF werr # Nil THEN Return(p, c, emptyChunkSource, werr)
            ELSE IF persistTableIsEmpty(w.chunkCount) THEN Return(p, c, emptyChunkSource, Nil)
            ELSE Goto(p, c, "tempfile")
    /\ ncalls' = ncalls + 1
    /\ UNCHANGED <<ftpOf, dir, indexCache, lockedEntries, fc, dvars>>

persistTableTempFile(p) ==
    /\ pc[p] = "tempfile"
    /\ \E ferr \in {Nil, "ErrTempFile"} :
         LET f == ftpOf[p]
             c == Log(call[p], "TempFile", ferr, 0)
         IN IF ferr # Nil
            THEN /\ Return(p, [c EXCEPT !.ferr = ferr], nilChunkSource, ferr)
                 /\ dir' = dir
            ELSE /\ Goto(p, [c EXCEPT !.tempName = FreshTemp(f), !.tempOpen = TRUE], "copy")
                 /\ dir' = [dir EXCEPT ![f][FreshTemp(f)] = File(<<>>)]
    /\ UNCHANGED <<ftpOf, indexCache, lockedEntries, fc, ncalls, dvars>>

\* io.Copy(temp, data): all of data is written, or a prefix and an error
CopyOutcomes(data) ==
    {[n |-> Len(data), err |-> Nil]} \cup {[n |-> k, err |-> "ErrCopy"] : k \in 0..(Len(data) - 1)}

persistTableCopy(p) ==
    /\ pc[p] = "copy"
    /\ \E o \in CopyOutcomes(call[p].data) :
         LET f == ftpOf[p]
             c == Log(call[p], "Copy", o.err, o.n)
         IN /\ dir' = [dir EXCEPT ![f][c.tempName] = File(@.bytes \o Prefix(c.data, o.n))]
            /\ IF o.err # Nil THEN Goto(p, [c EXCEPT !.ferr = o.err], "close")
               ELSE Goto(p, c, "parse")
    /\ UNCHANGED <<ftpOf, indexCache, lockedEntries, fc, ncalls, dvars>>

persistTableParse(p) ==
    /\ pc[p] = "parse"
    /\ LET f == ftpOf[p]
           r == parseTableIndex(call[p].data)
           c == Log(call[p], "Parse", r.err, 0)
       IN IF r.err # Nil THEN Goto(p, [c EXCEPT !.ferr = r.err], "close")
          ELSE IF HasIndexCache(f) THEN Goto(p, [c EXCEPT !.index = r.index], "lock")
          ELSE Goto(p, [c EXCEPT !.index = r.index], "close")
    /\ UNCHANGED <<ftpOf, dir, indexCache, lockedEntries, fc, ncalls, dvars>>

persistTableLockEntry(p) ==
    /\ pc[p] = "lock"
    /\ lockEntryEnabled(ftpOf[p], call[p].name)
    /\ lockedEntries' = [lockedEntries EXCEPT ![ftpOf[p]] = @ \cup {call[p].name}]
    /\ Goto(p, Log(call[p], "lockEntry", Nil, 0), "put")
    /\ UNCHANGED <<ftpOf, dir, indexCache, fc, ncalls, dvars>>

\* faulty variant: the temp file is closed while the entry lock is held
persistTablePutThenClose(p) ==
    /\ pc[p] = "put"
    /\ indexCache' = [indexCache EXCEPT ![ftpOf[p]][call[p].name] = call[p].index]
    /\ Goto(p, Log(Log(call[p], "put", Nil, 0), "Close", Nil, 0), "unlock")
    /\ UNCHANGED <<ftpOf, dir, lockedEntries, fc, ncalls, dvars>>

persistTablePut(p) ==
    /\ pc[p] = "put"
    /\ indexCache' = [indexCache EXCEPT ![ftpOf[p]][call[p].name] = call[p].index]
    /\ Goto(p, Log(call[p], "put", Nil, 0), "unlock")
    /\ UNCHANGED <<ftpOf, dir, lockedEntries, fc, ncalls, dvars>>

\* a deferred function keeps the first error of the enclosing function
DeferredErr(ferr, e) == IF ferr = Nil THEN e ELSE ferr

\* faulty variant: the deferred unlock is missing, the entry stays locked
persistTableUnlockEntryMissing(p) ==
    /\ pc[p] = "unlock"
    /\ Goto(p, call[p], "close")
    /\ UNCHANGED <<ftpOf, dir, indexCache, lockedEntries, fc, ncalls, dvars>>

\* faulty variant: the entry is unlocked a second time, which fails
persistTableUnlockEntryTwice(p) ==
    /\ pc[p] = "unlock"
    /\ LET f == ftpOf[p]
           c == Log(Log(call[p], "unlockEntry", Nil, 0), "unlockEntry", "ErrNotLocked", 0)
       IN /\ lockedEntries' = [lockedEntries EXCEPT ![f] = @ \ {c.name}]
          /\ Goto(p, [c EXCEPT !.ferr = DeferredErr(c.ferr, "ErrNotLocked")], "close")
    /\ UNCHANGED <<ftpOf, dir, indexCache, fc, ncalls, dvars>>

persistTableUnlockEntry(p) ==
    /\ pc[p] = "unlock"
    /\ LET f == ftpOf[p]
           unlockErr == unlockEntryErr(f, call[p].name)
           c == Log(call[p], "unlockEntry", unlockErr, 0)
       IN /\ lockedEntries' = [lockedEntries EXCEPT ![f] = @ \ {c.name}]
          /\ Goto(p, [c EXCEPT !.ferr = DeferredErr(c.ferr, unlockErr)], "close")
    /\ UNCHANGED <<ftpOf, dir, indexCache, fc, ncalls, dvars>>

\* faulty variant: the temp file is renamed before ShrinkCache is called
persistTableAfterRenameFirst(l) ==
    CASE l = "close" -> "rename"
      [] l = "rename" -> "shrink"
      [] l = "shrink" -> "open"
      [] l = "open" -> "done"

\* faulty variant: ShrinkCache is left out
persistTableAfterNoShrink(l) ==
    CASE l = "close" -> "rename"
      [] l = "shrink" -> "rename"
      [] l = "rename" -> "open"
      [] l = "open" -> "done"

\* the order of the steps of persistTable after the temp file is closed
persistTableAfter(l) ==
    CASE l = "close" -> "shrink"
      [] l = "shrink" -> "rename"
      [] l = "rename" -> "open"
      [] l = "open" -> "done"

\* one of those steps: an error ends the call, otherwise the next step follows
persistTableStep(p, c, l, err) ==
    IF err # Nil THEN Return(p, c, nilChunkSource, err)
    ELSE Goto(p, c, persistTableAfter(l))

\* faulty variant: the error of the inner function is not checked
persistTableAfterWriteUnchecked(p, c) == Goto(p, c, "shrink")

\* after the inner function: an error ends the call, otherwise ShrinkCache is next
persistTableAfterWrite(p, c) == persistTableStep(p, c, "close", c.ferr)

persistTableClose(p) ==
    /\ pc[p] = "close"
    /\ \E closeErr \in {Nil, "ErrClose"} :
         LET c == Log(call[p], "Close", closeErr, 0)
         IN persistTableAfterWrite(p, [c EXCEPT !.tempOpen = FALSE,
                                                !.ferr = DeferredErr(c.ferr, closeErr)])
    /\ UNCHANGED <<ftpOf, dir, indexCache, lockedEntries, fc, ncalls, dvars>>

persistTableShrinkCache(p) ==
    /\ pc[p] = "shrink"
    /\ \E err \in {Nil, "ErrShrink"}, S \in ShrinkTargets(ftpOf[p]) :
         LET c == Log(call[p], "ShrinkCache", err, 0)
         IN /\ fc' = [fc EXCEPT ![ftpOf[p]] = S]
            /\ persistTableStep(p, c, "shrink", err)
    /\ UNCHANGED <<ftpOf, dir, indexCache, lockedEntries, ncalls, dvars>>

\* os.Rename(tempName, newName): newName takes over the file of tempName
Rename(d, tempName, newName) == [d EXCEPT ![newName] = d[tempName], ![tempName] = NoFile]

persistTableRename(p) ==
    /\ pc[p] = "rename"
    /\ \E err \in {Nil, "ErrRename"} :
         LET f == ftpOf[p]
             c == Log(call[p], "Rename", err, 0)
         IN /\ persistTableStep(p, c, "rename", err)
            /\ dir' = IF err # Nil THEN dir
                      ELSE [dir EXCEPT ![f] = Rename(@, c.tempName, FileName(c.name))]
    /\ UNCHANGED <<ftpOf, indexCache, lockedEntries, fc, ncalls, dvars>>

persistTableOpen(p) ==
    /\ pc[p] = "open"
    /\ \E ioErr \in {Nil, "ErrOpen"} :
         LET f == ftpOf[p]
             r == mmapTableReader(f, call[p].name, ioErr)
             c == Log(call[p], "Open", r.err, 0)
         IN /\ Return(p, c, r.cs, r.err)
            /\ fc' = IF r.err = Nil THEN [fc EXCEPT ![f] = @ \cup {c.name}] ELSE fc
    /\ UNCHANGED <<ftpOf, dir, indexCache, lockedEntries, ncalls, dvars>>

(***************************************************************************)
(* fsTablePersister.ConjoinAll                                             *)
(***************************************************************************)
ConjoinAllIsEmpty(plan) == plan.chunkCount = 0

ConjoinAll(p) ==
    /\ CanCall(p)
    /\ \E sources \in ConjoinInputs, perr \in {Nil, "ErrPlan"} :
         LET plan == planConjoin(sources)
             c == [NoCall EXCEPT !.op = "ConjoinAll", !.plan = plan,
                                 !.chunkCount = plan.chunkCount]
         IN IF perr # Nil THEN Return(p, c, emptyChunkSource, perr)
            ELSE IF ConjoinAllIsEmpty(plan) THEN Return(p, c, emptyChunkSource, Nil)
            ELSE Goto(p, [c EXCEPT !.name = nameFromSuffixes(plan.suffixes), !.i = 1],
                      "ctempfile")
    /\ ncalls' = ncalls + 1
    /\ UNCHANGED <<ftpOf, dir, indexCache, lockedEntries, fc, dvars>>

ConjoinAllTempFile(p) ==
    /\ pc[p] = "ctempfile"
    /\ \E ferr \in {Nil, "ErrTempFile"} :
         LET f == ftpOf[p]
             c == Log(call[p], "TempFile", ferr, 0)
         IN IF ferr # Nil
            THEN /\ Return(p, [c EXCEPT !.ferr = ferr], nilChunkSource, ferr)
                 /\ dir' = dir
            ELSE /\ Goto(p, [c EXCEPT !.tempName = FreshTemp(f), !.tempOpen = TRUE], "ccopy")
                 /\ dir' = [dir EXCEPT ![f][FreshTemp(f)] = File(<<>>)]
    /\ UNCHANGED <<ftpOf, indexCache, lockedEntries, fc, ncalls, dvars>>

\* sws.source.reader and io.CopyN(temp, r, dataLen): the reader may fail; the
\* copy writes n <= dataLen bytes.  io.CopyN documents n = dataLen exactly when
\* err = nil; the code checks n as well, so the short copy without an error is
\* kept among the outcomes.
CopyNOutcomes(dataLen) ==
    {[rerr |-> "ErrReader", n |-> 0, err |-> Nil]}
    \cup {[rerr |-> Nil, n |-> dataLen, err |-> Nil]}
    \cup {[rerr |-> Nil, n |-> k, err |-> e] : k \in 0..(dataLen - 1), e \in {Nil, "ErrCopyN"}}

\* faulty variant: the number of bytes copied is not compared with dataLen
ConjoinAllCopyErrNoLengthCheck(o, dataLen) ==
    IF o.rerr # Nil THEN o.rerr ELSE o.err

\* the error of one round of the copy loop, Nil when the loop goes on
ConjoinAllCopyErr(o, dataLen) ==
    IF o.rerr # Nil THEN o.rerr
    ELSE IF o.err # Nil THEN o.err
    ELSE IF o.n # dataLen THEN "failed to copy all data"
    ELSE Nil

\* the copy loop returns at the first error and ends after the last source
ConjoinAllCopyNext(c, ferr) ==
    IF ferr # Nil THEN "cclose"
    ELSE IF c.i < Len(c.plan.sws) THEN "ccopy"
    ELSE "cwrite"

ConjoinAllCopyN(p) ==
    /\ pc[p] = "ccopy"
    /\ LET f == ftpOf[p]
           sws == call[p].plan.sws[call[p].i]
       IN \E o \in CopyNOutcomes(sws.dataLen) :
            LET ferr == ConjoinAllCopyErr(o, sws.dataLen)
                r == Log(call[p], "reader", o.rerr, 0)
                c == IF o.rerr # Nil THEN r ELSE Log(r, "CopyN", o.err, o.n)
            IN /\ dir' = [dir EXCEPT ![f][c.tempName] =
                                File(@.bytes \o Prefix(DataBytes(sws.source), o.n))]
               /\ Goto(p, [c EXCEPT !.ferr = ferr, !.i = IF ferr # Nil THEN @ ELSE @ + 1],
                       ConjoinAllCopyNext(c, ferr))
    /\ UNCHANGED <<ftpOf, indexCache, lockedEntries, fc, ncalls, dvars>>

\* temp.Write(mergedIndex): all of it is written, or a prefix and an error
WriteOutcomes(b) ==
    {[n |-> Len(b), err |-> Nil]} \cup {[n |-> k, err |-> "ErrWrite"] : k \in 0..(Len(b) - 1)}

ConjoinAllWrite(p) ==
    /\ pc[p] = "cwrite"
    /\ \E o \in WriteOutcomes(call[p].plan.mergedIndex) :
         LET f == ftpOf[p]
             c == Log(call[p], "Write", o.err, o.n)
         IN /\ dir' = [dir EXCEPT ![f][c.tempName] =
                             File(@.bytes \o Prefix(c.plan.mergedIndex, o.n))]
            /\ IF o.err # Nil THEN Goto(p, [c EXCEPT !.ferr = o.err], "cclose")
               ELSE Goto(p, c, "cparse")
    /\ UNCHANGED <<ftpOf, indexCache, lockedEntries, fc, ncalls, dvars>>

ConjoinAllParse(p) ==
    /\ pc[p] = "cparse"
    /\ LET f == ftpOf[p]
           r == parseTableIndex(call[p].plan.mergedIndex)
           c == Log(call[p], "Parse", r.err, 0)
       IN IF r.err # Nil THEN Goto(p, [c EXCEPT !.ferr = r.err], "cclose")
          ELSE IF HasIndexCache(f) THEN Goto(p, [c EXCEPT !.index = r.index], "cput")
          ELSE Goto(p, [c EXCEPT !.index = r.index], "cclose")
    /\ UNCHANGED <<ftpOf, dir, indexCache, lockedEntries, fc, ncalls, dvars>>

\* faulty variant: only the first entry of the merged index is cached
ConjoinAllPutFirstEntry(p) ==
    /\ pc[p] = "cput"
    /\ indexCache' = [indexCache EXCEPT ![ftpOf[p]][call[p].name] = SubSeq(call[p].index, 1, 1)]
    /\ Goto(p, Log(call[p], "put", Nil, 0), "cclose")
    /\ UNCHANGED <<ftpOf, dir, lockedEntries, fc, ncalls, dvars>>

ConjoinAllPut(p) ==
    /\ pc[p] = "cput"
    /\ indexCache' = [indexCache EXCEPT ![ftpOf[p]][call[p].name] = call[p].index]
    /\ Goto(p, Log(call[p], "put", Nil, 0), "cclose")
    /\ UNCHANGED <<ftpOf, dir, lockedEntries, fc, ncalls, dvars>>

\* after the inner function: an error ends the call, otherwise the rename is next
ConjoinAllAfterWrite(p, c) ==
    IF c.ferr # Nil THEN Return(p, c, nilChunkSource, c.ferr) ELSE Goto(p, c, "crename")

ConjoinAllClose(p) ==
    /\ pc[p] = "cclose"
    /\ \E closeErr \in {Nil, "ErrClose"} :
         LET c == Log(call[p], "Close", closeErr, 0)
         IN ConjoinAllAfterWrite(p, [c EXCEPT !.tempOpen = FALSE,
                                              !.ferr = DeferredErr(c.ferr, closeErr)])
    /\ UNCHANGED <<ftpOf, dir, indexCache, lockedEntries, fc, ncalls, dvars>>

ConjoinAllRename(p) ==
    /\ pc[p] = "crename"
    /\ \E err \in {Nil, "ErrRename"} :
         LET f == ftpOf[p]
             c == Log(call[p], "Rename", err, 0)
         IN IF err # Nil
            THEN /\ Return(p, c, nilChunkSource, err)
                 /\ dir' = dir
            ELSE /\ Goto(p, c, "copen")
                 /\ dir' = [dir EXCEPT ![f] = Rename(@, c.tempName, FileName(c.name))]
    /\ UNCHANGED <<ftpOf, indexCache, lockedEntries, fc, ncalls, dvars>>

ConjoinAllOpen(p) ==
    /\ pc[p] = "copen"
    /\ \E ioErr \in {Nil, "ErrOpen"} :
         LET f == ftpOf[p]
             r == mmapTableReader(f, call[p].name, ioErr)
             c == Log(call[p], "Open", r.err, 0)
         IN /\ Return(p, c, r.cs, r.err)
            /\ fc' = IF r.err = Nil THEN [fc EXCEPT ![f] = @ \cup {c.name}] ELSE fc
    /\ UNCHANGED <<ftpOf, dir, indexCache, lockedEntries, ncalls, dvars>>

NextFtp ==
    \/ \E p \in Procs :
        \/ Open(p)
        \/ Persist(p)
        \/ persistTableTempFile(p)
        \/ persistTableCopy(p)
        \/ persistTableParse(p)
        \/ persistTableLockEntry(p)
        \/ persistTablePut(p)
        \/ persistTableUnlockEntry(p)
        \/ persistTableClose(p)
        \/ persistTableShrinkCache(p)
        \/ persistTableRename(p)
        \/ persistTableOpen(p)
        \/ ConjoinAll(p)
        \/ ConjoinAllTempFile(p)
        \/ ConjoinAllCopyN(p)
        \/ ConjoinAllWrite(p)
        \/ ConjoinAllParse(p)
        \/ ConjoinAllPut(p)
        \/ ConjoinAllClose(p)
        \/ ConjoinAllRename(p)
        \/ ConjoinAllOpen(p)

\* the steps of a call that is under way
CallStep(p) ==
    \/ persistTableTempFile(p)
    \/ persistTableCopy(p)
    \/ persistTableParse(p)
    \/ persistTableLockEntry(p)
    \/ persistTablePut(p)
    \/ persistTableUnlockEntry(p)
    \/ persistTableClose(p)
    \/ persistTableShrinkCache(p)
    \/ persistTableRename(p)
    \/ persistTableOpen(p)
    \/ ConjoinAllTempFile(p)
    \/ ConjoinAllCopyN(p)
    \/ ConjoinAllWrite(p)
    \/ ConjoinAllParse(p)
    \/ ConjoinAllPut(p)
    \/ ConjoinAllClose(p)
    \/ ConjoinAllRename(p)
    \/ ConjoinAllOpen(p)

(***************************************************************************)
(* AsyncDiffer and keylessDiffer                                           *)
(***************************************************************************)
NilValue == [nil |-> TRUE, card |-> 0]
Tuple(card) == [nil |-> FALSE, card |-> card]

Difference(t, old, new) == [ChangeType |-> t, OldValue |-> old, NewValue |-> new]
NoDifference == Difference("none", NilValue, NilValue)

\* the differences diff.Diff sends: rows added, removed and modified, with
\* their cardinalities, and one of a change type convertDiff does not know
Changes ==
    {Difference("Added", NilValue, Tuple(1)), Difference("Added", NilValue, Tuple(2)),
     Difference("Removed", Tuple(1), NilValue),
     Difference("Modified", Tuple(1), Tuple(2)), Difference("Modified", Tuple(2), Tuple(1)),
     Difference("Modified", Tuple(1), Tuple(1)),
     Difference("Unknown", Tuple(1), Tuple(1))}

\* the numDiffs the consumer asks for
NumDiffsInputs == {0, 1, 2}

\* an entry of a returned slice: nil, a pointer to the variable d of one round
\* of AsyncDiffer.GetDiffs (which holds val), or a pointer to kd.df
NilPtr == [to |-> "nil", val |-> NoDifference]
PtrToD(d) == [to |-> "d", val |-> d]
PtrToKdDf == [to |-> "kd.df", val |-> NoDifference]

\* what is read through an entry: the variable it points to
Deref(ptr) == IF ptr.to = "kd.df" THEN kd.df ELSE ptr.val

\* uint64 and int64 at the width of the model
Card == Pow2(CardBits)
ToInt64(u) == IF u >= Card \div 2 THEN u - Card ELSE u
ToUint64(i) == i % Card

\* faulty variant: a Modified change with equal cardinalities or a change of
\* an unknown type gives zero copies and no error
convertDiffZeroCopies(df) ==
    LET oldCard == IF df.OldValue.nil THEN 0 ELSE df.OldValue.card
        newCard == IF df.NewValue.nil THEN 0 ELSE df.NewValue.card
    IN CASE df.ChangeType = "Removed" -> [df |-> df, n |-> oldCard, err |-> Nil]
         [] df.ChangeType = "Added" -> [df |-> df, n |-> newCard, err |-> Nil]
         [] OTHER -> [df |-> df, n |-> ToUint64(newCard - oldCard), err |-> Nil]

\* convertDiff reports the cardinality of a change, and converts updates to
\* adds or deletes
convertDiff(df) ==
    LET oldCard == IF df.OldValue.nil THEN 0 ELSE df.OldValue.card
        newCard == IF df.NewValue.nil THEN 0 ELSE df.NewValue.card
        delta == ToInt64(ToUint64(ToInt64(newCard) - ToInt64(oldCard)))
    IN CASE df.ChangeType = "Removed" -> [df |-> df, n |-> oldCard, err |-> Nil]
         [] df.ChangeType = "Added" -> [df |-> df, n |-> newCard, err |-> Nil]
         [] df.ChangeType = "Modified" ->
              IF delta > 0
              THEN [df |-> [df EXCEPT !.ChangeType = "Added", !.OldValue = NilValue],
                    n |-> ToUint64(delta), err |-> Nil]
              ELSE IF delta < 0
              THEN [df |-> [df EXCEPT !.ChangeType = "Removed", !.NewValue = NilValue],
                    n |-> ToUint64(delta), err |-> Nil]
              ELSE [df |-> df, n |-> 0, err |-> "diff with delta = 0"]
         [] OTHER -> [df |-> df, n |-> 0, err |-> "unexpected DiffChange type"]

\* the locals and results of a GetDiffs call, and what is recorded of the calls:
\*   fired     the timer of time.After(timeout) has sent on timeoutChan
\*   recv      the differences this call has received from the channel
\*   filled    per entry of diffs placed by keylessDiffer.GetDiffs, the number
\*             of the change it was filled for and the value kd.df had then
\*   nrecv     the number of differences received by all calls so far
\*   due       the sum of the copy counts convertDiff gave for them
\*   returned  the number of entries in the slices returned without error
\*   clean     every call so far asked for numDiffs > 0 and none has ended by
\*             the timeout, the cancellation or an error
NoGet ==
    [op |-> "none", pc |-> "idle", numDiffs |-> 0, diffs |-> <<>>, idx |-> 0,
     more |-> FALSE, err |-> Nil, failed |-> FALSE,
     fired |-> FALSE, recv |-> <<>>, filled |-> <<>>,
     nrecv |-> 0, due |-> 0, returned |-> 0, clean |-> TRUE]

\* a new call: the locals are fresh, the record of the earlier calls is kept
NewGet(op, l, numDiffs, diffs) ==
    [NoGet EXCEPT !.op = op, !.pc = l, !.numDiffs = numDiffs, !.diffs = diffs,
                  !.nrecv = get.nrecv, !.due = get.due, !.returned = get.returned,
                  !.clean = get.clean /\ op = "GetDiffs" /\ numDiffs > 0]

InitDiffer ==
    /\ keyless \in BOOLEAN
    /\ diffChan = [buf |-> <<>>, closed |-> FALSE]
    /\ prod = [pc |-> "new", sent |-> 0, err |-> Nil, panic |-> Nil, raised |-> FALSE,
               defer |-> 0]
    /\ eg = [running |-> FALSE, err |-> Nil, ctxDone |-> FALSE]
    /\ kd = [df |-> NoDifference, copiesLeft |-> 0]
    /\ get = NoGet
    /\ ngets = 0

\* Start: the errgroup is made and the producer task is started in it
Start ==
    /\ prod.pc = "new"
    /\ prod' = [prod EXCEPT !.pc = "Diff"]
    /\ eg' = [running |-> TRUE, err |-> Nil, ctxDone |-> FALSE]
    /\ UNCHANGED <<keyless, diffChan, kd, get, ngets, ftpVars>>

\* diff.Diff sends a difference; the send waits while the channel is full
DiffSend ==
    /\ prod.pc = "Diff"
    /\ prod.sent < MaxDiffs
    /\ Len(diffChan.buf) < BufferSize
    /\ \E d \in Changes : diffChan' = [diffChan EXCEPT !.buf = Append(@, d)]
    /\ prod' = [prod EXCEPT !.sent = @ + 1]
    /\ UNCHANGED <<keyless, eg, kd, get, ngets, ftpVars>>

\* diff.Diff returns, with or without an error; the deferred functions run next
DiffReturn ==
    /\ prod.pc = "Diff"
    /\ \E err \in {Nil, "ErrDiff"} : prod' = [prod EXCEPT !.pc = "defers", !.err = err, !.defer = 1]
    /\ UNCHANGED <<keyless, diffChan, eg, kd, get, ngets, ftpVars>>

\* diff.Diff panics; the deferred functions run while the panic unwinds
DiffPanic ==
    /\ prod.pc = "Diff"
    /\ prod' = [prod EXCEPT !.pc = "defers", !.panic = "panic", !.raised = TRUE, !.defer = 1]
    /\ UNCHANGED <<keyless, diffChan, eg, kd, get, ngets, ftpVars>>

\* faulty variant: the channel is closed before the panic is recovered
StartDefersCloseFirst == <<"close", "recover">>

\* the deferred functions of the producer task in the order they run: the one
\* deferred last runs first
StartDefers == <<"recover", "close">>

\* one deferred function runs; after the last one the task returns to the
\* errgroup, or the process dies of the panic nobody recovered
ProducerDefer ==
    /\ prod.pc = "defers"
    /\ LET d == StartDefers[prod.defer]
           recovered == d = "recover" /\ prod.panic # Nil
           panic == IF recovered THEN Nil ELSE prod.panic
           last == prod.defer = Len(StartDefers)
       IN /\ prod' = [prod EXCEPT
                        !.err = IF recovered THEN "panic in diff.Diff" ELSE @,
                        !.panic = panic,
                        !.defer = IF last THEN 0 ELSE @ + 1,
                        !.pc = IF ~last THEN "defers"
                               ELSE IF panic # Nil THEN "crashed" ELSE "return"]
          /\ diffChan' = IF d = "close" THEN [diffChan EXCEPT !.closed = TRUE] ELSE diffChan
    /\ UNCHANGED <<keyless, eg, kd, get, ngets, ftpVars>>

\* errgroup: the first error of a task is kept and cancels the context; then
\* the task counts as finished
ProducerReturn ==
    /\ prod.pc = "return"
    /\ prod' = [prod EXCEPT !.pc = "finished"]
    /\ eg' = IF prod.err # Nil /\ eg.err = Nil
             THEN [running |-> FALSE, err |-> prod.err, ctxDone |-> TRUE]
             ELSE [eg EXCEPT !.running = FALSE]
    /\ UNCHANGED <<keyless, diffChan, kd, get, ngets, ftpVars>>

\* the producer task has ended with an error
ProducerFailed == prod.pc = "finished" /\ prod.err # Nil

\* GetDiffs returns (diffs, more, err)
GetReturn(g, diffs, more, err) ==
    get' = [g EXCEPT !.pc = "returned", !.diffs = diffs, !.more = more, !.err = err,
                     !.failed = ProducerFailed,
                     !.returned = IF err = Nil THEN @ + Len(diffs) ELSE @,
                     !.clean = @ /\ err = Nil]

\* the call is about to end by the timeout or the cancellation
Unclean(g) == [g EXCEPT !.clean = FALSE]

\* GetDiffs returns what eg.Wait() returns, once the task has finished
GetWait(g, diffs) == get' = [g EXCEPT !.pc = "wait", !.diffs = diffs, !.more = FALSE]

CanGet == prod.pc # "new" /\ get.pc \in {"idle", "returned"} /\ ngets < MaxGets

\* AsyncDiffer.GetDiffs
GetDiffs ==
    /\ CanGet
    /\ ~keyless
    /\ \E numDiffs \in NumDiffsInputs :
         get' = NewGet("GetDiffs", "select", numDiffs, <<>>)
    /\ ngets' = ngets + 1
    /\ UNCHANGED <<keyless, diffChan, prod, eg, kd, ftpVars>>

\* case d, more := <-ad.diffChan, with more = true
GetDiffsReceive ==
    /\ get.pc = "select" /\ ~keyless
    /\ diffChan.buf # <<>>
    /\ diffChan' = [diffChan EXCEPT !.buf = Tail(@)]
    /\ LET diffs == Append(get.diffs, PtrToD(Head(diffChan.buf)))
           g == [get EXCEPT !.recv = Append(@, Head(diffChan.buf)), !.nrecv = @ + 1]
       IN IF get.numDiffs # 0 /\ get.numDiffs = Len(diffs)
          THEN GetReturn(g, diffs, TRUE, Nil)
          ELSE get' = [g EXCEPT !.diffs = diffs]
    /\ UNCHANGED <<keyless, prod, eg, kd, ngets, ftpVars>>

\* case d, more := <-ad.diffChan, with more = false
GetDiffsClosed ==
    /\ get.pc = "select" /\ ~keyless
    /\ diffChan.buf = <<>> /\ diffChan.closed
    /\ GetWait(get, get.diffs)
    /\ UNCHANGED <<keyless, diffChan, prod, eg, kd, ngets, ftpVars>>

\* time.After(timeout): when the timeout has passed the timer sends on
\* timeoutChan
TimeoutFires ==
    /\ get.pc \in {"select", "fill", "kselect"}
    /\ ~get.fired
    /\ get' = [get EXCEPT !.fired = TRUE]
    /\ UNCHANGED <<keyless, diffChan, prod, eg, kd, ngets, ftpVars>>

\* faulty variant: the select has no timeout case
GetDiffsTimeoutMissing ==
    /\ FALSE
    /\ UNCHANGED vars

\* case <-timeoutChan
GetDiffsTimeout ==
    /\ get.pc = "select" /\ ~keyless
    /\ get.fired
    /\ GetReturn(Unclean(get), get.diffs, TRUE, Nil)
    /\ UNCHANGED <<keyless, diffChan, prod, eg, kd, ngets, ftpVars>>

\* case <-ad.egCtx.Done()
GetDiffsCtxDone ==
    /\ get.pc = "select" /\ ~keyless
    /\ eg.ctxDone
    /\ GetWait(Unclean(get), <<>>)
    /\ UNCHANGED <<keyless, diffChan, prod, eg, kd, ngets, ftpVars>>

\* eg.Wait(): waits for the task, cancels the context, returns the first error
egWait ==
    /\ get.pc = "wait"
    /\ ~eg.running
    /\ eg' = [eg EXCEPT !.ctxDone = TRUE]
    /\ GetReturn(get, get.diffs, get.more, eg.err)
    /\ UNCHANGED <<keyless, diffChan, prod, kd, ngets, ftpVars>>

\* AsyncDiffer.Close: egCancel(), then eg.Wait()
Close ==
    /\ prod.pc # "new" /\ get.pc \in {"idle", "returned"}
    /\ get.op # "Close"
    /\ get' = NewGet("Close", "wait", 0, <<>>)
    /\ UNCHANGED <<keyless, diffChan, prod, eg, kd, ngets, ftpVars>>

\* keylessDiffer.GetDiffs
keylessGetDiffs ==
    /\ CanGet
    /\ keyless
    /\ \E numDiffs \in NumDiffsInputs :
         get' = NewGet("GetDiffs", "fill", numDiffs, [i \in 1..numDiffs |-> NilPtr])
    /\ ngets' = ngets + 1
    /\ UNCHANGED <<keyless, diffChan, prod, eg, kd, ftpVars>>

\* faulty variant: the copies that do not fit in this call are dropped
keylessGetDiffsFillDropsRest ==
    /\ get.pc = "fill"
    /\ LET room == get.numDiffs - get.idx
           k == IF kd.copiesLeft < room THEN kd.copiesLeft ELSE room
           idx == get.idx + k
           diffs == [i \in 1..get.numDiffs |->
                        IF i > get.idx /\ i <= idx THEN PtrToKdDf ELSE get.diffs[i]]
           filled == get.filled \o [i \in 1..k |-> [k |-> get.nrecv, df |-> kd.df]]
           g == [get EXCEPT !.idx = idx, !.diffs = diffs, !.filled = filled]
       IN /\ kd' = [kd EXCEPT !.copiesLeft = 0]
          /\ IF idx = get.numDiffs THEN GetReturn(g, diffs, TRUE, Nil)
             ELSE get' = [g EXCEPT !.pc = "kselect"]
    /\ UNCHANGED <<keyless, diffChan, prod, eg, ngets, ftpVars>>

\* the inner loop: diffs is filled with pointers to kd.df while copies are
\* left, and the call returns when idx has reached numDiffs
keylessGetDiffsFill ==
    /\ get.pc = "fill"
    /\ LET room == get.numDiffs - get.idx
           k == IF kd.copiesLeft < room THEN kd.copiesLeft ELSE room
           idx == get.idx + k
           diffs == [i \in 1..get.numDiffs |->
                        IF i > get.idx /\ i <= idx THEN PtrToKdDf ELSE get.diffs[i]]
           filled == get.filled \o [i \in 1..k |-> [k |-> get.nrecv, df |-> kd.df]]
           g == [get EXCEPT !.idx = idx, !.diffs = diffs, !.filled = filled]
       IN /\ kd' = [kd EXCEPT !.copiesLeft = @ - k]
          /\ IF idx = get.numDiffs THEN GetReturn(g, diffs, TRUE, Nil)
             ELSE get' = [g EXCEPT !.pc = "kselect"]
    /\ UNCHANGED <<keyless, diffChan, prod, eg, ngets, ftpVars>>

\* case <-timeoutChan
keylessGetDiffsTimeout ==
    /\ get.pc = "kselect"
    /\ get.fired
    /\ GetReturn(Unclean(get), get.diffs, TRUE, Nil)
    /\ UNCHANGED <<keyless, diffChan, prod, eg, kd, ngets, ftpVars>>

\* case <-kd.egCtx.Done()
keylessGetDiffsCtxDone ==
    /\ get.pc = "kselect"
    /\ eg.ctxDone
    /\ GetWait(Unclean(get), <<>>)
    /\ UNCHANGED <<keyless, diffChan, prod, eg, kd, ngets, ftpVars>>

\* case d, more = <-kd.diffChan, with more = false
keylessGetDiffsClosed ==
    /\ get.pc = "kselect"
    /\ diffChan.buf = <<>> /\ diffChan.closed
    /\ GetReturn(get, SubSeq(get.diffs, 1, get.idx), FALSE, Nil)
    /\ UNCHANGED <<keyless, diffChan, prod, eg, kd, ngets, ftpVars>>

\* case d, more = <-kd.diffChan, with more = true
keylessGetDiffsReceive ==
    /\ get.pc = "kselect"
    /\ diffChan.buf # <<>>
    /\ diffChan' = [diffChan EXCEPT !.buf = Tail(@)]
    /\ LET r == convertDiff(Head(diffChan.buf))
           g == [get EXCEPT !.recv = Append(@, Head(diffChan.buf)), !.nrecv = @ + 1,
                            !.due = @ + r.n]
       IN /\ kd' = [df |-> r.df, copiesLeft |-> r.n]
          /\ IF r.err # Nil THEN GetReturn(g, <<>>, FALSE, r.err)
             ELSE get' = [g EXCEPT !.pc = "fill"]
    /\ UNCHANGED <<keyless, prod, eg, ngets, ftpVars>>

NextDiffer ==
    \/ Start
    \/ DiffSend
    \/ DiffReturn
    \/ DiffPanic
    \/ ProducerDefer
    \/ ProducerReturn
    \/ GetDiffs
    \/ GetDiffsReceive
    \/ GetDiffsClosed
    \/ TimeoutFires
    \/ GetDiffsTimeout
    \/ GetDiffsCtxDone
    \/ egWait
    \/ Close
    \/ keylessGetDiffs
    \/ keylessGetDiffsFill
    \/ keylessGetDiffsTimeout
    \/ keylessGetDiffsCtxDone
    \/ keylessGetDiffsClosed
    \/ keylessGetDiffsReceive

\* the persister with no call made, and the differ before Start
FtpIdle == InitFtp /\ \A p \in Procs : ftpOf[p] = 1
DifferIdle == InitDiffer /\ ~keyless

Init == InitFtp /\ DifferIdle
Next == NextFtp
Spec == Init /\ [][Next]_vars

InitD == InitDiffer /\ FtpIdle
SpecDiffer == InitD /\ [][NextDiffer]_vars

\* the callers share the persister that has an index cache
InitShared == Init /\ \A p \in Procs : HasIndexCache(ftpOf[p])

\* every caller is scheduled: a call that can take its next step takes it
FairSpec == InitShared /\ [][Next]_vars /\ \A p \in Procs : WF_vars(CallStep(p))

\* the select of AsyncDiffer.GetDiffs takes one of its ready cases
GetDiffsSelect == GetDiffsReceive \/ GetDiffsClosed \/ GetDiffsTimeout \/ GetDiffsCtxDone

\* the AsyncDiffer used on its own, without the keylessDiffer around it
InitAsync == InitD /\ ~keyless
NextAsync ==
    \/ Start
    \/ DiffSend
    \/ DiffReturn
    \/ DiffPanic
    \/ ProducerDefer
    \/ ProducerReturn
    \/ GetDiffs
    \/ GetDiffsReceive
    \/ GetDiffsClosed
    \/ TimeoutFires
    \/ GetDiffsTimeout
    \/ GetDiffsCtxDone
    \/ egWait
    \/ Close

\* the consumer runs: a select with a ready case takes one
FairDiffer == InitAsync /\ [][NextAsync]_vars /\ WF_vars(GetDiffsSelect)

(***************************************************************************)
(* What the claims speak of                                                *)
(***************************************************************************)
\* the chunks, the complete image and the index of the table with address h
ChunksOf(h) == SortedSeq({c \in Chunks : (h \div Pow2(c - 1)) % 2 = 1})
ImageOf(h) == DataBytes(ChunksOf(h)) \o IndexBytes(ChunksOf(h))
IndexOf(h) == [i \in 1..Len(ChunksOf(h)) |-> <<"i", ChunksOf(h)[i], i>>]

Creates(c) == c.op \in {"Persist", "ConjoinAll"}
Done(p) == pc[p] = "done"
Did(c, op) == \E i \in DOMAIN c.trace : c.trace[i].op = op /\ c.trace[i].err = Nil
Tried(c, op) == \E i \in DOMAIN c.trace : c.trace[i].op = op
Installed(c) == Did(c, "Rename")
LastOp(c) == IF c.trace = <<>> THEN "none" ELSE c.trace[Len(c.trace)].op
InputErr(c) == c.err \in {"ErrWrite", "ErrPlan"}

FinalFileComplete ==
    \A f \in Ftps, h \in 1..MaxAddr :
        dir[f][FileName(h)].exists => dir[f][FileName(h)].bytes = ImageOf(h)

OpenedComplete ==
    \A p \in Procs :
        Done(p) /\ call[p].cs.kind = "table" =>
            call[p].cs = tableReader(call[p].name, ImageOf(call[p].name), IndexOf(call[p].name))

PublishedByRename ==
    \A f \in Ftps, h \in 1..MaxAddr :
        ~dir[f][FileName(h)].exists /\ dir'[f][FileName(h)].exists =>
            \E p \in Procs :
                /\ ftpOf[p] = f
                /\ pc[p] \in {"rename", "crename"}
                /\ pc'[p] # pc[p]
                /\ call[p].name = h
                /\ ~call[p].tempOpen
                /\ dir[f][call[p].tempName] = File(ImageOf(h))
                /\ dir'[f][FileName(h)] = dir[f][call[p].tempName]
                /\ ~dir'[f][call[p].tempName].exists

\* C1: in every reachable state a file under a final table name holds the
\* complete table image, an Open that succeeds returns the complete table, and
\* a final-named file appears only by the rename of a closed, completely
\* written temp file.
C1_AtomicVisibility ==
    /\ [](FinalFileComplete /\ OpenedComplete)
    /\ [][PublishedByRename]_vars

\* C1 witness: one caller has renamed its temp file and not yet opened the
\* table while another caller's Open of that name has returned the table.
C1_Witness ==
    \E p, q \in Procs :
        /\ p # q
        /\ ftpOf[p] = ftpOf[q]
        /\ pc[q] \in {"open", "copen"}
        /\ Done(p) /\ call[p].op = "Open" /\ call[p].err = Nil
        /\ call[p].name = call[q].name

\* C2 (as claimed): a Persist or ConjoinAll call that returns an error, the
\* error of the final Open included, has created no file under the final name.
C2_NoFinalFileOnAnyError ==
    \A p \in Procs :
        Done(p) /\ Creates(call[p]) /\ call[p].err # Nil => ~Installed(call[p])

\* C2 (amended): a Persist or ConjoinAll call that returns an error has created
\* no file under the final name, and its temp file, if it made one, is left
\* behind, unless the error is that of the final Open: then the call has
\* installed the complete file under the final name.
C2_NoFinalFileOnErrorBeforeOpen ==
    \A p \in Procs :
        Done(p) /\ Creates(call[p]) /\ call[p].err # Nil =>
            LET c == call[p]
                f == ftpOf[p]
            IN /\ Installed(c) <=> LastOp(c) = "Open"
               /\ Installed(c) => dir[f][FileName(c.name)] = File(ImageOf(c.name))
               /\ ~Installed(c) /\ Did(c, "TempFile") =>
                      /\ dir[f][c.tempName].exists
                      /\ c.tempName[1] = tempTablePrefix

\* C2 witness: one call has failed before the rename and left its temp file,
\* another has failed in the final Open with its file installed.
C2_Witness ==
    \E p, q \in Procs :
        /\ Done(p) /\ Creates(call[p]) /\ call[p].err # Nil
        /\ Did(call[p], "TempFile") /\ ~Installed(call[p])
        /\ Done(q) /\ Creates(call[q]) /\ call[q].err # Nil /\ Installed(call[q])

\* a step in which caller p starts a Persist or ConjoinAll call whose chunk
\* count is zero (the memTable was written, the plan was made)
StartsEmpty(p) ==
    /\ CanCall(p)
    /\ ncalls' = ncalls + 1
    /\ \A q \in Procs \ {p} : call'[q] = call[q] /\ pc'[q] = pc[q]
    /\ Creates(call'[p])
    /\ call'[p].chunkCount = 0
    /\ ~InputErr(call'[p])

\* C3: a call whose chunk count is zero returns the empty chunk source and no
\* error at once; the directory, the index cache, its entry locks and the
\* file-handle cache are as before and no operation on them was made.
C3_EmptyTouchesNothing ==
    [][\A p \in Procs :
          StartsEmpty(p) =>
              /\ pc'[p] = "done"
              /\ call'[p].cs = emptyChunkSource
              /\ call'[p].err = Nil
              /\ call'[p].trace = <<>>
              /\ UNCHANGED <<dir, indexCache, lockedEntries, fc>>]_vars

\* C3 witness: a Persist and a ConjoinAll have both returned the empty source.
C3_Witness ==
    \E p, q \in Procs :
        /\ Done(p) /\ call[p].op = "Persist" /\ call[p].chunkCount = 0
        /\ call[p].cs = emptyChunkSource /\ call[p].err = Nil
        /\ Done(q) /\ call[q].op = "ConjoinAll" /\ call[q].chunkCount = 0
        /\ call[q].cs = emptyChunkSource /\ call[q].err = Nil

\* the source the k-th event of the trace reads or copies from
SourceAt(c, k) == c.plan.sws[Cardinality({j \in 1..k : c.trace[j].op = "reader"})]
\* the k-th event is a copy that failed or came short of the planned length,
\* or a reader that could not be had
BadCopy(c, k) ==
    \/ c.trace[k].op = "reader" /\ c.trace[k].err # Nil
    \/ /\ c.trace[k].op = "CopyN"
       /\ c.trace[k].err # Nil \/ c.trace[k].n < SourceAt(c, k).dataLen

\* C4: in ConjoinAll a copy that fails or comes short ends the call with an
\* error: only the close of the temp file follows it (no later copy, no write
\* of the merged index, no put, no rename, no Open).
C4_ShortCopyAborts ==
    \A p \in Procs :
        call[p].op = "ConjoinAll" =>
            \A k \in DOMAIN call[p].trace :
                BadCopy(call[p], k) =>
                    /\ \A j \in (k + 1)..Len(call[p].trace) : call[p].trace[j].op = "Close"
                    /\ pc[p] \in {"cclose", "done"}
                    /\ call[p].ferr # Nil
                    /\ ~Tried(call[p], "put") /\ ~Tried(call[p], "Rename")
                    /\ Done(p) => call[p].err # Nil /\ call[p].cs = nilChunkSource

\* C4 witness: a ConjoinAll whose second source was copied short, without an
\* error from the copy, has returned.
C4_Witness ==
    \E p \in Procs :
        /\ Done(p) /\ call[p].op = "ConjoinAll"
        /\ \E k \in DOMAIN call[p].trace :
             /\ BadCopy(call[p], k)
             /\ call[p].trace[k].err = Nil
             /\ \E j \in 1..(k - 1) : call[p].trace[j].op = "CopyN"

\* C5 (as claimed): every insertion into the index cache happens while the
\* entry lock of that name is held.
C5_PutUnderEntryLock ==
    [][\A f \in Ftps, h \in 1..MaxAddr :
          indexCache'[f][h] # indexCache[f][h] => h \in lockedEntries[f]]_vars

\* C6 (as claimed): a call that renames its temp file to the final name has
\* called ShrinkCache before, and ShrinkCache returned no error.
C6_ShrinkCacheBeforeInstall ==
    \A p \in Procs :
        \A i \in DOMAIN call[p].trace :
            call[p].trace[i].op = "Rename" =>
                \E j \in 1..(i - 1) :
                    call[p].trace[j].op = "ShrinkCache" /\ call[p].trace[j].err = Nil

\* two callers persist the same table through the same persister
SamePersist(p, q) ==
    /\ p # q
    /\ ftpOf[p] = ftpOf[q]
    /\ call[p].op = "Persist" /\ call[q].op = "Persist"
    /\ call[p].chunkCount > 0
    /\ call[p].name = call[q].name

RacingPersistsSafe ==
    \A p, q \in Procs :
        SamePersist(p, q) =>
            LET f == ftpOf[p]
                h == call[p].name
            IN /\ dir[f][FileName(h)].exists => dir[f][FileName(h)] = File(ImageOf(h))
               /\ indexCache[f][h] \in {NoIndex, IndexOf(h)}
               /\ Tried(call[p], "put") => indexCache[f][h] = IndexOf(h)
               /\ h \in lockedEntries[f] => pc[p] \in {"put", "unlock"} \/ pc[q] \in {"put", "unlock"}
               /\ ~(pc[p] \in {"put", "unlock"} /\ pc[q] \in {"put", "unlock"})
               /\ Done(p) /\ call[p].err = Nil =>
                      call[p].cs = tableReader(h, ImageOf(h), IndexOf(h))

\* C7: while two callers persist the same table, the final-named file is
\* complete once it exists, the index cache holds the index of that data once
\* either has put it, and a caller that waits for the entry lock gets it and
\* finishes its call.
C7_RacingPersists ==
    /\ []RacingPersistsSafe
    /\ \A p \in Procs : (pc[p] = "lock") ~> Done(p)

\* C7 witness: both callers have succeeded.
C7_Witness ==
    \E p, q \in Procs :
        /\ SamePersist(p, q)
        /\ HasIndexCache(ftpOf[p])
        /\ Done(p) /\ call[p].err = Nil
        /\ Done(q) /\ call[q].err = Nil

CacheOps == {"lockEntry", "put", "unlockEntry"}
IsFsOp(e) == e.op \notin CacheOps
FsOps(c) == SelectSeq(c.trace, IsFsOp)

\* caller p on the persister with an index cache and caller q on the one
\* without have made the same call and both have returned
Twins(p, q) ==
    /\ HasIndexCache(ftpOf[p]) /\ ~HasIndexCache(ftpOf[q])
    /\ Done(p) /\ Done(q)
    /\ Creates(call[p])
    /\ call[p].op = call[q].op
    /\ call[p].name = call[q].name
    /\ call[p].chunkCount = call[q].chunkCount
    /\ InputErr(call[p]) = InputErr(call[q])

\* C8: with the same data and the same outcomes of the filesystem operations,
\* the call on the persister with an index cache and the call on the one
\* without make the same filesystem operations, return the same result and,
\* when they are the only calls made, leave the same directory.
C8_IndexCacheAdvisory ==
    \A p, q \in Procs :
        Twins(p, q) =>
            LET s == FsOps(call[p])
                t == FsOps(call[q])
                m == IF Len(s) <= Len(t) THEN Len(s) ELSE Len(t)
            IN /\ \A i \in 1..m : SubSeq(s, 1, i - 1) = SubSeq(t, 1, i - 1) => s[i].op = t[i].op
               /\ SubSeq(s, 1, m) = SubSeq(t, 1, m) => s = t
               /\ s = t =>
                      /\ call[p].err = call[q].err
                      /\ call[p].cs = call[q].cs
                      /\ ncalls = 2 => dir[ftpOf[p]] = dir[ftpOf[q]]

\* C8 witness: the same Persist has succeeded on both persisters, with the
\* entry locked, the index put and the entry unlocked on the first.
C8_Witness ==
    \E p, q \in Procs :
        /\ Twins(p, q)
        /\ call[p].err = Nil /\ call[p].cs.kind = "table"
        /\ call[q].err = Nil
        /\ Did(call[p], "unlockEntry")

\* C9: a panic in diff.Diff does not end the process; it is recovered before
\* the channel is closed and becomes the error of the task, which eg.Wait
\* returns; the channel is closed on every path by which the task ends.
C9_PanicBecomesError ==
    /\ prod.pc # "crashed"
    /\ diffChan.closed =>
           /\ prod.panic = Nil
           /\ prod.raised => prod.err = "panic in diff.Diff"
    /\ prod.pc \in {"return", "finished"} => diffChan.closed
    /\ prod.pc = "finished" =>
           /\ ~eg.running
           /\ eg.err = prod.err
           /\ prod.raised => eg.err = "panic in diff.Diff"
    /\ get.op = "Close" /\ get.pc = "returned" => get.err = prod.err

\* C9 witness: diff.Diff has panicked, the task has ended with the channel
\* closed, and Close has returned the error made of the panic.
C9_Witness ==
    /\ prod.raised
    /\ prod.pc = "finished"
    /\ diffChan.closed
    /\ get.op = "Close" /\ get.pc = "returned"
    /\ get.err = "panic in diff.Diff"

\* C10 (as claimed): a GetDiffs call that returns more = false after the
\* producer task has ended with an error returns an error.
C10_FailureReachesGetDiffs ==
    get.op = "GetDiffs" /\ get.pc = "returned" /\ ~get.more /\ get.failed => get.err # Nil

Ops(c) == [i \in DOMAIN c.trace |-> c.trace[i].op]
NoErrors(c) == \A i \in DOMAIN c.trace : c.trace[i].err = Nil
IsPrefixOf(s, t) == Len(s) <= Len(t) /\ SubSeq(t, 1, Len(s)) = s
Before(c, op, i) == \E j \in 1..(i - 1) : c.trace[j].op = op /\ c.trace[j].err = Nil

\* the steps of a Persist of a non-empty table that succeeds
PersistSteps(f) ==
    IF HasIndexCache(f)
    THEN <<"TempFile", "Copy", "Parse", "lockEntry", "put", "unlockEntry",
           "Close", "ShrinkCache", "Rename", "Open">>
    ELSE <<"TempFile", "Copy", "Parse", "Close", "ShrinkCache", "Rename", "Open">>

\* C13: a Persist of a non-empty table that succeeds has made, once each and in
\* this order: temp file created and written in full, index parsed, entry
\* locked, index put, entry unlocked (with an index cache), temp file closed,
\* ShrinkCache, rename, Open. No Persist renames before its temp file is
\* closed, ShrinkCache has succeeded and the index is cached.
C13_PersistStepOrder ==
    \A p \in Procs :
        call[p].op = "Persist" =>
            LET c == call[p]
                f == ftpOf[p]
            IN /\ NoErrors(c) => IsPrefixOf(Ops(c), PersistSteps(f))
               /\ Done(p) /\ c.err = Nil /\ c.chunkCount > 0 =>
                      /\ Ops(c) = PersistSteps(f)
                      /\ NoErrors(c)
                      /\ c.trace[2].n = Len(c.data)
               /\ \A i \in DOMAIN c.trace :
                      c.trace[i].op = "Rename" =>
                          /\ Before(c, "Close", i) /\ ~c.tempOpen
                          /\ Before(c, "ShrinkCache", i)
                          /\ HasIndexCache(f) => Before(c, "put", i)

\* C13 witness: a Persist of a non-empty table has succeeded on the persister
\* with an index cache, and one on the persister without.
C13_Witness ==
    \E p, q \in Procs :
        /\ HasIndexCache(ftpOf[p]) /\ ~HasIndexCache(ftpOf[q])
        /\ \A r \in {p, q} :
             /\ Done(r) /\ call[r].op = "Persist" /\ call[r].chunkCount > 0
             /\ call[r].err = Nil /\ Did(call[r], "Open")

\* caller p holds the entry lock of the table it persists
HoldsEntry(p) == call[p].op = "Persist" /\ pc[p] \in {"put", "unlock"}

\* C14: the entry lock is taken only after the temp file is written and the
\* index parsed; the holder's only operation under the lock is put; the unlock
\* follows at once, before Close, ShrinkCache, Rename and Open; a call that has
\* returned has released the lock.
C14_EntryLockNotAcrossIO ==
    /\ \A f \in Ftps : \A h \in lockedEntries[f] :
           \E p \in Procs : ftpOf[p] = f /\ call[p].name = h /\ HoldsEntry(p)
    /\ \A p \in Procs :
           call[p].op = "Persist" =>
               LET c == call[p]
                   t == Ops(c)
                   n == Len(t)
               IN /\ HoldsEntry(p) <=> \E k \in 1..n : t[k] = "lockEntry" /\ n <= k + 1
                  /\ HoldsEntry(p) => c.name \in lockedEntries[ftpOf[p]]
                  /\ \A k \in 1..n :
                         t[k] = "lockEntry" =>
                             /\ SubSeq(t, 1, k - 1) = <<"TempFile", "Copy", "Parse">>
                             /\ \A j \in 1..(k - 1) : c.trace[j].err = Nil
                             /\ n >= k + 1 => t[k + 1] = "put"
                             /\ n >= k + 2 => t[k + 2] = "unlockEntry" /\ c.trace[k + 2].err = Nil
                             /\ \A j \in 1..n :
                                    t[j] \in {"Close", "ShrinkCache", "Rename", "Open"} => j > k + 2
                  /\ Done(p) /\ Tried(c, "lockEntry") => Did(c, "unlockEntry")

\* C14 witness: one caller holds the entry lock while another, whose Persist
\* took and released the lock, has returned an error.
C14_Witness ==
    \E p, q \in Procs :
        /\ p # q /\ ftpOf[p] = ftpOf[q]
        /\ HoldsEntry(q)
        /\ Done(p) /\ call[p].op = "Persist" /\ call[p].err # Nil
        /\ Did(call[p], "unlockEntry")

PutBy(p, f, h) ==
    /\ ftpOf[p] = f
    /\ Creates(call[p])
    /\ pc[p] \in {"put", "cput"}
    /\ pc'[p] # pc[p]
    /\ call[p].name = h
    /\ ~Installed(call[p])

Last(s) == s[Len(s)]
OldCard(d) == IF d.OldValue.nil THEN 0 ELSE d.OldValue.card
NewCard(d) == IF d.NewValue.nil THEN 0 ELSE d.NewValue.card
\* a change keylessDiffer.GetDiffs cannot turn into copies
ZeroDelta(d) == d.ChangeType = "Modified" /\ OldCard(d) = NewCard(d)
UnknownType(d) == d.ChangeType \notin {"Added", "Removed", "Modified"}
KeylessCall == keyless /\ get.op = "GetDiffs"

\* C11: when keylessDiffer.GetDiffs receives a Modified change of delta 0 or a
\* change of an unknown type, the call ends there and returns (nil, false,
\* error): the call does not go on to fill or receive, and returns no entries.
C11_ZeroDeltaIsError ==
    KeylessCall =>
        \A i \in DOMAIN get.recv :
            ZeroDelta(get.recv[i]) \/ UnknownType(get.recv[i]) =>
                /\ i = Len(get.recv)
                /\ get.pc = "returned"
                /\ get.diffs = <<>>
                /\ ~get.more
                /\ get.err # Nil

\* C11 witness: a call that had placed an entry has received a Modified change
\* of delta 0 and returned.
C11_Witness ==
    /\ KeylessCall /\ get.pc = "returned"
    /\ get.recv # <<>> /\ ZeroDelta(Last(get.recv))
    /\ get.idx > 0

AsyncCall == ~keyless /\ get.op = "GetDiffs"
PtrsTo(ds) == [i \in DOMAIN ds |-> PtrToD(ds[i])]
\* only the timeout case of the select is ready
OnlyTimeoutReady ==
    /\ get.pc = "select" /\ get.fired
    /\ diffChan.buf = <<>> /\ ~diffChan.closed /\ ~eg.ctxDone

C12_Bounded ==
    AsyncCall /\ get.numDiffs > 0 =>
        /\ Len(get.diffs) <= get.numDiffs
        /\ Len(get.recv) <= get.numDiffs
        /\ get.pc = "select" => Len(get.recv) < get.numDiffs /\ get.diffs = PtrsTo(get.recv)
        /\ get.pc = "returned" /\ Len(get.recv) = get.numDiffs =>
               get.diffs = PtrsTo(get.recv) /\ get.more /\ get.err = Nil
        /\ get.pc = "returned" /\ get.more =>
               /\ get.diffs = PtrsTo(get.recv) /\ get.err = Nil
               /\ Len(get.recv) < get.numDiffs => get.fired

C12_TimeoutReturns ==
    AsyncCall /\ OnlyTimeoutReady /\ get' # get =>
        /\ get'.pc = "returned" /\ get'.more /\ get'.err = Nil
        /\ get'.diffs = PtrsTo(get.recv)

\* C12: AsyncDiffer.GetDiffs(n, timeout) with n > 0 returns at most n
\* differences, returns n of them with more = true and no error as soon as n
\* are received, returns those received so far with more = true and no error
\* when only the timeout is ready, and once the timeout has fired it does not
\* stay in the select.
C12_CountAndTimeout ==
    /\ []C12_Bounded
    /\ [][C12_TimeoutReturns]_vars
    /\ (AsyncCall /\ get.pc = "select" /\ get.fired) ~> (get.pc # "select")

\* C12 witness: a call that asked for two differences has returned one on the
\* timeout, the channel being open.
C12_Witness ==
    /\ AsyncCall /\ get.pc = "returned"
    /\ get.numDiffs = 2 /\ Len(get.diffs) = 1
    /\ get.more /\ get.err = Nil /\ get.fired
    /\ ~diffChan.closed

\* C16 (as claimed): the copy count convertDiff reports is the new cardinality
\* of an Added change, the old cardinality of a Removed change and |n - o| of a
\* Modified change, which becomes Added (old value cleared) when n > o and
\* Removed (new value cleared) when n < o.
C16_CopyCountIsCardinality ==
    KeylessCall /\ get.pc = "fill" /\ get.recv # <<>> =>
        LET d == Last(get.recv)
            o == OldCard(d)
            n == NewCard(d)
        IN /\ d.ChangeType = "Added" => kd = [df |-> d, copiesLeft |-> n]
           /\ d.ChangeType = "Removed" => kd = [df |-> d, copiesLeft |-> o]
           /\ d.ChangeType = "Modified" /\ n > o =>
                  kd = [df |-> Difference("Added", NilValue, d.NewValue), copiesLeft |-> n - o]
           /\ d.ChangeType = "Modified" /\ n < o =>
                  kd = [df |-> Difference("Removed", d.OldValue, NilValue), copiesLeft |-> o - n]

\* the entries placed by the call in progress
Placed == IF get.pc \in {"fill", "kselect"} THEN get.idx ELSE 0

\* C17: while no call has ended by the timeout, the cancellation or an error,
\* the entries returned by keylessDiffer.GetDiffs and those still due add up
\* to the copy counts of the changes received: a call that reports more = true
\* returns numDiffs entries, the call that reports more = false has returned
\* the last of them, and entries are placed in the order of the changes.
C17_CopiesCarriedOver ==
    keyless /\ get.clean =>
        /\ get.returned + Placed + kd.copiesLeft = get.due
        /\ Len(get.filled) = get.idx
        /\ \A i \in DOMAIN get.filled :
               /\ get.filled[i].k >= get.nrecv - Len(get.recv)
               /\ get.filled[i].k <= get.nrecv
               /\ i > 1 => get.filled[i - 1].k <= get.filled[i].k
        /\ get.pc = "returned" /\ get.more =>
               Len(get.diffs) = get.numDiffs /\ get.idx = get.numDiffs
        /\ get.pc = "returned" /\ ~get.more =>
               get.returned = get.due /\ kd.copiesLeft = 0 /\ Len(get.diffs) = get.idx

\* C17 witness: the second call has placed a copy left over by the first and
\* has reported more = false with every copy returned.
C17_Witness ==
    /\ KeylessCall /\ get.clean /\ prod.err = Nil
    /\ get.pc = "returned" /\ ~get.more
    /\ get.filled # <<>> /\ get.filled[1].k = get.nrecv - Len(get.recv)
    /\ get.returned = get.due /\ get.due > Len(get.diffs)

\* C18 (as claimed): what is read through an entry placed by
\* keylessDiffer.GetDiffs is the change that was current when it was placed.
C18_EntriesKeepTheirChange ==
    KeylessCall =>
        \A i \in DOMAIN get.filled :
            i \in DOMAIN get.diffs => Deref(get.diffs[i]) = get.filled[i].df

\* C19 (as claimed): a slice keylessDiffer.GetDiffs returns without an error
\* has as many entries as the call has placed and no nil entry.
C19_OnlyFilledEntries ==
    KeylessCall /\ get.pc = "returned" /\ get.err = Nil =>
        /\ Len(get.diffs) = get.idx
        /\ \A i \in DOMAIN get.diffs : get.diffs[i] # NilPtr

====
